---- MODULE Spec2Model ----
(***************************************************************************)
(* Selective-retry chapter generation of storyCrew:                        *)
(*   ChapterCrew.generate_chapter   (src/src/storycrew/crews/chapter_crew.py)*)
(*   ChapterGenerationState         (models/chapter_generation_state.py)   *)
(*   determine_retry_level          (models/retry_level.py)                *)
(* One call of generate_chapter is modelled: the attempt loop, the choice  *)
(* of pipeline, the external Crew.kickoff call (which returns task outputs *)
(* or raises), the absorption of outputs, the judge gate, the              *)
(* classification, the retry-count guard and the exception handler.        *)
(*                                                                         *)
(* Python values are represented as follows.                               *)
(*   None (for Optional[str] fields)        the string NoneVal             *)
(*   a text (draft, revision)               a string; "" is the empty text *)
(*   a SceneList object                     the sequence of its scenes'    *)
(*                                          target_words                   *)
(*   a SceneList JSON string / "" / None    a record [tag, scenes] with    *)
(*                                          tag "json" / "empty" / "None"  *)
(*   a block of instructions                a sequence of line tokens      *)
(*   Python list index i                    TLA+ sequence index i+1        *)
(***************************************************************************)
EXTENDS Integers, Sequences, FiniteSets, TLC

\* ------------------------------------------------------------------------
\* Bounds of the model (not program constants)
\* ------------------------------------------------------------------------
MaxIssues == 2

\* ------------------------------------------------------------------------
\* Program constants
\* ------------------------------------------------------------------------
\* (variant: one retry too many)
max_retries_plus_one == 2 + 1

max_retries == 2

MAX_EDIT_RETRIES == 2

MAX_WRITE_RETRIES == 2

target_total == 3000

tolerance == 100

RATE_LIMIT_DELAY == 60

EDIT_ONLY == "edit_only"

WRITE_ONLY == "write_only"

FULL_RETRY == "full_retry"

RetryLevel == {EDIT_ONLY, WRITE_ONLY, FULL_RETRY}

NoneVal == "None"

\* ------------------------------------------------------------------------
\* Scene lists and their JSON form
\* ------------------------------------------------------------------------
NoneSL == [tag |-> "None", scenes |-> <<>>]

EmptyStr == [tag |-> "empty", scenes |-> <<>>]

\* SceneList.model_dump_json(): a non-empty JSON string carrying the scenes
model_dump_json(sl) == [tag |-> "json", scenes |-> sl]

\* Python truthiness of an Optional[str]: None and "" are falsy
Truthy(s) == s.tag = "json"

TruthyText(t) == t # NoneVal /\ t # ""

\* _parse_scene_list_safe: SceneList.model_validate_json inside try/except;
\* anything that is not a SceneList JSON document yields None (ok = FALSE)
parse_scene_list_safe(s) ==
    IF s.tag = "json" THEN [ok |-> TRUE, scenes |-> s.scenes]
                      ELSE [ok |-> FALSE, scenes |-> <<>>]

RECURSIVE SumSeq(_)
SumSeq(s) == IF s = <<>> THEN 0 ELSE Head(s) + SumSeq(Tail(s))

Abs(x) == IF x < 0 THEN 0 - x ELSE x

\* Python round() of the exact quotient n/d (n >= 0, d > 0): nearest
\* integer, ties to even
RoundHalfEven(n, d) ==
    LET q == n \div d
        r == n % d
    IN  IF 2 * r < d THEN q
        ELSE IF 2 * r > d THEN q + 1
        ELSE IF q % 2 = 0 THEN q ELSE q + 1

RECURSIVE Pow2(_)
Pow2(n) == IF n = 0 THEN 1 ELSE 2 * Pow2(n - 1)

\* 2^q mod S
RECURSIVE PowMod2(_, _)
PowMod2(q, S) == IF q = 0 THEN 1 % S ELSE (2 * PowMod2(q - 1, S)) % S

\* floor(log2(a / b)) for a, b > 0: the binary exponent of the double a/b
RECURSIVE Log2Up(_, _, _)
Log2Up(a, b, j) == IF Pow2(j + 1) * b <= a THEN Log2Up(a, b, j + 1) ELSE j

RECURSIVE Log2Down(_, _, _)
Log2Down(a, b, j) == IF Pow2(0 - j) * a < b THEN Log2Down(a, b, j - 1) ELSE j

FloorLog2(a, b) == IF a >= b THEN Log2Up(a, b, 0) ELSE Log2Down(a, b, 0 - 1)

\* round(T * (3000 / S)) for T >= 0, S > 0 as Python computes it in IEEE
\* double arithmetic: scale_factor = 3000 / S is rounded to 53 bits, the
\* product is rounded to 53 bits, round() then rounds ties to even.  Away
\* from a tie the result is the nearest integer of the exact quotient.  At
\* an exact tie T*3000/S = n + 1/2 the result depends on the rounding error
\* of scale_factor: R/S is the fraction of 3000 * 2^(52-j) / S cut off in
\* scale_factor (j its exponent, k the exponent of n + 1/2); the product
\* falls back on n + 1/2 when T times that error is at most half a unit in
\* the last place of n + 1/2, and otherwise lies on the side of n + 1/2 to
\* which scale_factor was rounded.
TieRemainder(S, j) == ((target_total % S) * PowMod2(52 - j, S)) % S

TieExponent(n, j, k, R, S) ==
    IF n = 0 /\ ~(2 * R > S) THEN k - j - 2 ELSE k - j - 1

TieErrorSmall(T, S, R, e) ==
    IF e >= 0
    THEN T * (IF 2 * R > S THEN S - R ELSE R) <= S * Pow2(e)
    ELSE T * (IF 2 * R > S THEN S - R ELSE R) * Pow2(0 - e) <= S

TieRound(T, S, n, R, e) ==
    IF R = 0 \/ TieErrorSmall(T, S, R, e)
    THEN IF n % 2 = 0 THEN n ELSE n + 1
    ELSE IF 2 * R > S THEN n + 1 ELSE n

TieScale(T, S, n, j, k) ==
    TieRound(T, S, n, TieRemainder(S, j),
             TieExponent(n, j, k, TieRemainder(S, j), S))

FloatScale(T, S) ==
    IF (2 * target_total * T) % S # 0
       \/ ((2 * target_total * T) \div S) % 2 = 0
    THEN RoundHalfEven(target_total * T, S)
    ELSE TieScale(T, S, (((2 * target_total * T) \div S) - 1) \div 2,
                  FloorLog2(target_total, S),
                  FloorLog2((2 * target_total * T) \div S, 2))

\* round(target_words * scale_factor), scale_factor = 3000 / current_sum
ScaleWords(t, current_sum) ==
    LET v == FloatScale(Abs(t), Abs(current_sum)) IN
    IF (t >= 0) = (current_sum > 0) THEN v ELSE 0 - v

\* (variant: every plan is rescaled and the rounding residue is dropped)
normalize_scene_list_word_count_always_rescaled(scenes) ==
    IF SumSeq(scenes) = 0
    THEN [raised |-> TRUE, scenes |-> scenes]
    ELSE [raised |-> FALSE,
          scenes |-> [i \in 1..Len(scenes) |-> ScaleWords(scenes[i], SumSeq(scenes))]]

\* (variant: the tolerance test is strict)
normalize_scene_list_word_count_strict(scenes) ==
    LET current_sum == SumSeq(scenes) IN
    IF Abs(current_sum - target_total) < tolerance
    THEN [raised |-> FALSE, scenes |-> scenes]
    ELSE IF current_sum = 0
    THEN [raised |-> TRUE, scenes |-> scenes]
    ELSE LET corrected == [i \in 1..Len(scenes) |-> ScaleWords(scenes[i], current_sum)]
             new_sum == SumSeq(corrected)
             n == Len(corrected)
         IN  IF new_sum # target_total
             THEN [raised |-> FALSE,
                   scenes |-> [corrected EXCEPT ![n] = @ + (target_total - new_sum)]]
             ELSE [raised |-> FALSE, scenes |-> corrected]

\* (variant: the last scene is not adjusted)
normalize_scene_list_word_count_unadjusted(scenes) ==
    LET current_sum == SumSeq(scenes) IN
    IF Abs(current_sum - target_total) <= tolerance
    THEN [raised |-> FALSE, scenes |-> scenes]
    ELSE IF current_sum = 0
    THEN [raised |-> TRUE, scenes |-> scenes]
    ELSE [raised |-> FALSE,
          scenes |-> [i \in 1..Len(scenes) |-> ScaleWords(scenes[i], current_sum)]]

\* _normalize_scene_list_word_count; raised = TRUE is ZeroDivisionError
normalize_scene_list_word_count(scenes) ==
    LET current_sum == SumSeq(scenes) IN
    IF Abs(current_sum - target_total) <= tolerance
    THEN [raised |-> FALSE, scenes |-> scenes]
    ELSE IF current_sum = 0
    THEN [raised |-> TRUE, scenes |-> scenes]
    ELSE LET corrected == [i \in 1..Len(scenes) |-> ScaleWords(scenes[i], current_sum)]
             new_sum == SumSeq(corrected)
             n == Len(corrected)
         IN  IF new_sum # target_total
             THEN [raised |-> FALSE,
                   scenes |-> [corrected EXCEPT ![n] = @ + (target_total - new_sum)]]
             ELSE [raised |-> FALSE, scenes |-> corrected]

\* _parse_and_normalize_scene_list: ok = FALSE is the None return
parse_and_normalize_scene_list(s) ==
    LET parsed == parse_scene_list_safe(s) IN
    IF ~parsed.ok THEN [raised |-> FALSE, ok |-> FALSE, scenes |-> <<>>]
    ELSE LET norm == normalize_scene_list_word_count(parsed.scenes) IN
         [raised |-> norm.raised, ok |-> ~norm.raised, scenes |-> norm.scenes]

\* ------------------------------------------------------------------------
\* Judge reports
\* ------------------------------------------------------------------------
IssueTypes == {"continuity", "structure", "motivation", "pacing",
               "clue_fairness", "prose", "hook", "safety", "word_count"}

Severities == {"low", "medium", "high", "critical"}

\* RetryLevel.required_tasks
required_tasks(level) ==
    IF level = EDIT_ONLY THEN <<"edit_chapter", "judge_chapter">>
    ELSE IF level = WRITE_ONLY THEN <<"write_chapter", "edit_chapter", "judge_chapter">>
    ELSE <<"plan_chapter", "write_chapter", "edit_chapter", "judge_chapter">>

WriteTypes == {"motivation", "hook", "clue_fairness", "continuity"}

EditTypes == {"prose", "pacing", "word_count"}

\* determine_retry_level with the last-attempt override one attempt later
determine_retry_level_late_override(judge_report, a) ==
    LET issue_types == {i.type : i \in judge_report.issues}
        safety_issues == {i \in judge_report.issues : i.type = "safety"}
    IN  IF a > 2 THEN FULL_RETRY
        ELSE IF "structure" \in issue_types THEN FULL_RETRY
        ELSE IF "safety" \in issue_types
             THEN IF \E i \in safety_issues : i.severity \in {"high", "critical"}
                  THEN FULL_RETRY ELSE EDIT_ONLY
        ELSE IF issue_types \cap WriteTypes # {} THEN WRITE_ONLY
        ELSE IF issue_types \cap EditTypes # {} THEN EDIT_ONLY
        ELSE WRITE_ONLY

\* determine_retry_level with the safety rule tried before the structure rule
determine_retry_level_safety_first(judge_report, a) ==
    LET issue_types == {i.type : i \in judge_report.issues}
        safety_issues == {i \in judge_report.issues : i.type = "safety"}
    IN  IF a >= 2 THEN FULL_RETRY
        ELSE IF "safety" \in issue_types
             THEN IF \E i \in safety_issues : i.severity \in {"high", "critical"}
                  THEN FULL_RETRY ELSE EDIT_ONLY
        ELSE IF "structure" \in issue_types THEN FULL_RETRY
        ELSE IF issue_types \cap WriteTypes # {} THEN WRITE_ONLY
        ELSE IF issue_types \cap EditTypes # {} THEN EDIT_ONLY
        ELSE WRITE_ONLY

\* determine_retry_level with the motivation rule tried before the safety rule
determine_retry_level_write_first(judge_report, a) ==
    LET issue_types == {i.type : i \in judge_report.issues}
        safety_issues == {i \in judge_report.issues : i.type = "safety"}
    IN  IF a >= 2 THEN FULL_RETRY
        ELSE IF "structure" \in issue_types THEN FULL_RETRY
        ELSE IF issue_types \cap WriteTypes # {} THEN WRITE_ONLY
        ELSE IF "safety" \in issue_types
             THEN IF \E i \in safety_issues : i.severity \in {"high", "critical"}
                  THEN FULL_RETRY ELSE EDIT_ONLY
        ELSE IF issue_types \cap EditTypes # {} THEN EDIT_ONLY
        ELSE WRITE_ONLY

\* determine_retry_level with the prose rule tried before the motivation rule
determine_retry_level_edit_first(judge_report, a) ==
    LET issue_types == {i.type : i \in judge_report.issues}
        safety_issues == {i \in judge_report.issues : i.type = "safety"}
    IN  IF a >= 2 THEN FULL_RETRY
        ELSE IF "structure" \in issue_types THEN FULL_RETRY
        ELSE IF "safety" \in issue_types
             THEN IF \E i \in safety_issues : i.severity \in {"high", "critical"}
                  THEN FULL_RETRY ELSE EDIT_ONLY
        ELSE IF issue_types \cap EditTypes # {} THEN EDIT_ONLY
        ELSE IF issue_types \cap WriteTypes # {} THEN WRITE_ONLY
        ELSE WRITE_ONLY

\* determine_retry_level with EDIT_ONLY as the default
determine_retry_level_default_edit(judge_report, a) ==
    LET issue_types == {i.type : i \in judge_report.issues}
        safety_issues == {i \in judge_report.issues : i.type = "safety"}
    IN  IF a >= 2 THEN FULL_RETRY
        ELSE IF "structure" \in issue_types THEN FULL_RETRY
        ELSE IF "safety" \in issue_types
             THEN IF \E i \in safety_issues : i.severity \in {"high", "critical"}
                  THEN FULL_RETRY ELSE EDIT_ONLY
        ELSE IF issue_types \cap WriteTypes # {} THEN WRITE_ONLY
        ELSE IF issue_types \cap EditTypes # {} THEN EDIT_ONLY
        ELSE EDIT_ONLY

\* determine_retry_level(judge_report, attempt)
determine_retry_level(judge_report, a) ==
    LET issue_types == {i.type : i \in judge_report.issues}
        safety_issues == {i \in judge_report.issues : i.type = "safety"}
    IN  IF a >= 2 THEN FULL_RETRY
        ELSE IF "structure" \in issue_types THEN FULL_RETRY
        ELSE IF "safety" \in issue_types
             THEN IF \E i \in safety_issues : i.severity \in {"high", "critical"}
                  THEN FULL_RETRY ELSE EDIT_ONLY
        ELSE IF issue_types \cap {"motivation", "hook", "clue_fairness", "continuity"} # {}
             THEN WRITE_ONLY
        ELSE IF issue_types \cap {"prose", "pacing", "word_count"} # {}
             THEN EDIT_ONLY
        ELSE WRITE_ONLY

\* "\n".join(lines)
RECURSIVE JoinLines(_)
JoinLines(lines) ==
    IF Len(lines) = 0 THEN <<>>
    ELSE IF Len(lines) = 1 THEN lines
    ELSE <<Head(lines), "\n">> \o JoinLines(Tail(lines))

\* ------------------------------------------------------------------------
\* ChapterGenerationState
\* ------------------------------------------------------------------------
\* The declared fields and their defaults; current_attempt=0 at construction
ChapterGenerationState ==
    [scene_list |-> NoneSL, draft_text |-> NoneVal, revision_text |-> NoneVal,
     current_attempt |-> 0, last_retry_level |-> NoneVal, edit_retry_count |-> 0]

\* A pydantic model without extra="allow": reading an undeclared attribute
\* raises AttributeError, assigning one raises ValueError
HasField(st, name) == name \in DOMAIN st

\* (variant: WRITE_ONLY keeps the draft as EDIT_ONLY does)
to_preserve_write_keeps_draft(st, retry_level) ==
    IF retry_level \in {EDIT_ONLY, WRITE_ONLY}
    THEN [keys |-> (IF Truthy(st.scene_list) THEN {"scene_list"} ELSE {})
                   \cup (IF TruthyText(st.draft_text) THEN {"draft_text_for_edit"} ELSE {}),
          scene_list |-> st.scene_list, draft_text_for_edit |-> st.draft_text]
    ELSE [keys |-> {}, scene_list |-> st.scene_list, draft_text_for_edit |-> st.draft_text]

\* ChapterGenerationState.to_preserve(retry_level): the keys to update
to_preserve(st, retry_level) ==
    IF retry_level = EDIT_ONLY
    THEN [keys |-> (IF Truthy(st.scene_list) THEN {"scene_list"} ELSE {})
                   \cup (IF TruthyText(st.draft_text) THEN {"draft_text_for_edit"} ELSE {}),
          scene_list |-> st.scene_list, draft_text_for_edit |-> st.draft_text]
    ELSE IF retry_level = WRITE_ONLY
    THEN [keys |-> (IF Truthy(st.scene_list) THEN {"scene_list"} ELSE {}),
          scene_list |-> st.scene_list, draft_text_for_edit |-> st.draft_text]
    ELSE [keys |-> {}, scene_list |-> st.scene_list, draft_text_for_edit |-> st.draft_text]

\* inputs.update(preserved_inputs)
inputs_update(inp, preserved) ==
    [inp EXCEPT !.scene_list = IF "scene_list" \in preserved.keys
                               THEN preserved.scene_list ELSE @,
                !.draft_text_for_edit = IF "draft_text_for_edit" \in preserved.keys
                                        THEN preserved.draft_text_for_edit ELSE @]

\* ------------------------------------------------------------------------
\* Pipelines: the task list handed to Crew(...) by each runner
\* ------------------------------------------------------------------------
\* (variant: the judge is placed before the editor)
run_full_pipeline_judge_first ==
    <<"plan_chapter", "write_chapter", "judge_chapter", "edit_chapter", "update_bible">>

run_full_pipeline ==
    <<"plan_chapter", "write_chapter", "edit_chapter", "judge_chapter", "update_bible">>

run_write_retry ==
    <<"write_chapter", "edit_chapter", "judge_chapter", "update_bible">>

run_edit_retry ==
    <<"edit_chapter", "judge_chapter", "update_bible">>

\* ------------------------------------------------------------------------
\* What the external collaborators can deliver
\* ------------------------------------------------------------------------
\* scene plans the planning stage may produce (target_words per scene)
PlanPool == {<<1500, 500>>}

\* output of plan_chapter: an object whose .pydantic is a SceneList
\* ("scene_list"), whose .pydantic is None ("none"), or which has no
\* attribute pydantic at all ("no_attr")
PlanOutputs ==
    {[pydantic |-> "scene_list", scenes |-> p] : p \in PlanPool}
        \cup {[pydantic |-> "none", scenes |-> <<>>],
              [pydantic |-> "no_attr", scenes |-> <<>>]}

DraftPool == {"", "draft_a"}

RevisionPool == {"", "revision_a"}

BiblePool == {"bible_a", "bible_b"}

IssuePool ==
    {[type |-> "structure", severity |-> "high"],
     [type |-> "safety", severity |-> "critical"],
     [type |-> "motivation", severity |-> "high"],
     [type |-> "prose", severity |-> "medium"]}

IssueSets == {s \in SUBSET IssuePool : Cardinality(s) <= MaxIssues}

InstructionPool == {<<>>, <<"fix_a", "fix_b">>}

\* output of judge_chapter: .pydantic is a JudgeReport or None
\* a passing report carries no issue or a minor remark only, and no
\* revision instruction
PassedIssueSets == {s \in IssueSets : s \subseteq {[type |-> "prose", severity |-> "medium"]}}

NoJudge == [pydantic_ok |-> FALSE, passed |-> FALSE, issues |-> {},
            revision_instructions |-> <<>>]

JudgeOutputs ==
    {[pydantic_ok |-> TRUE, passed |-> TRUE, issues |-> s, revision_instructions |-> <<>>] :
        s \in PassedIssueSets}
    \cup
    {[pydantic_ok |-> TRUE, passed |-> FALSE, issues |-> s, revision_instructions |-> r] :
        s \in IssueSets, r \in InstructionPool}
    \cup {NoJudge}

\* result.tasks_output of a kickoff that returned: one output per task, in order
TasksOutput(tasks) ==
    IF tasks = run_full_pipeline
    THEN {<<p, d, r, j, b>> : p \in PlanOutputs, d \in DraftPool, r \in RevisionPool,
                              j \in JudgeOutputs, b \in BiblePool}
    ELSE IF tasks = run_write_retry
    THEN {<<d, r, j, b>> : d \in DraftPool, r \in RevisionPool,
                           j \in JudgeOutputs, b \in BiblePool}
    ELSE {<<r, j, b>> : r \in RevisionPool, j \in JudgeOutputs, b \in BiblePool}

\* exceptions a kickoff may raise: type name and whether the message
\* contains "rate limit"
ErrorPool ==
    {[type |-> "RateLimitError", rate_limit_msg |-> FALSE],
     [type |-> "OpenAIRateLimitError", rate_limit_msg |-> FALSE],
     [type |-> "APIError", rate_limit_msg |-> TRUE],
     [type |-> "TimeoutError", rate_limit_msg |-> FALSE]}

\* exceptions raised by the controller's own statements inside the try block
AttributeError == [type |-> "AttributeError", rate_limit_msg |-> FALSE]

ValueError == [type |-> "ValueError", rate_limit_msg |-> FALSE]

ZeroDivisionError == [type |-> "ZeroDivisionError", rate_limit_msg |-> FALSE]

NoError == [type |-> "None", rate_limit_msg |-> FALSE]

\* revision_instructions argument of generate_chapter: None or a block
CallerInstructions == {<<NoneVal>>, <<>>, <<"caller">>}

VARIABLES
    pc,        \* "loop": at the head of the for loop; "running": inside kickoff; "done"
    attempt,   \* the loop variable
    state,     \* the ChapterGenerationState
    inputs,    \* the inputs dict
    runs,      \* one record per Crew kickoff, in order
    slept,     \* the time.sleep delays, in order
    result,    \* how the call ended
    call,      \* a function called on its own: its name and arguments
    ret        \* whether that function returned, and what

vars == <<pc, attempt, state, inputs, runs, slept, result, call, ret>>

\* the variables of generate_chapter
crew_vars == <<pc, attempt, state, inputs, runs, slept, result>>

\* no function is called on its own while generate_chapter runs
NoCall == [fn |-> NoneVal]

NoReturn == [returned |-> FALSE, value |-> NoneVal]

Returned(v) == [returned |-> TRUE, value |-> v]

NoResult ==
    [kind |-> "none", chapter_text |-> NoneVal, updated_bible |-> NoneVal,
     judge_report |-> NoJudge, attempts |-> 0, success |-> "absent", error |-> NoError]

\* lines 393-407: state and inputs before the loop
Init ==
    /\ pc = "loop"
    /\ attempt = 0
    /\ state = ChapterGenerationState
    /\ \E ri \in CallerInstructions :
         inputs = [scene_list |-> EmptyStr,
                   scene_list_for_write |-> EmptyStr,
                   draft_text_for_edit |-> "",
                   revision_instructions |-> IF ri = <<NoneVal>> THEN <<>> ELSE ri]
    /\ runs = <<>>
    /\ slept = <<>>
    /\ result = NoResult
    /\ call = NoCall
    /\ ret = NoReturn

\* ------------------------------------------------------------------------
\* generate_chapter, statement by statement
\* ------------------------------------------------------------------------
Min(a, b) == IF a < b THEN a ELSE b

\* Python's `sub in s` on strings: sub occurs in s as a contiguous run of
\* characters (the empty string occurs in every string)
InString(sub, s) ==
    \E i \in 1..(Len(s) - Len(sub) + 1) : SubSeq(s, i, i + Len(sub) - 1) = sub

\* lines 540-551: the delay slept before the next attempt
backoff_delay(e, a) ==
    IF InString("RateLimitError", e.type) \/ e.rate_limit_msg
    THEN RATE_LIMIT_DELAY
    ELSE Min(5 * Pow2(a), 30)

\* (variant: the full pipeline is also handed the stored artifacts)
select_pipeline_carry(a, st, inp) ==
    LET inp1 == IF TruthyText(st.draft_text)
                THEN [inp EXCEPT !.draft_text_for_edit = st.draft_text] ELSE inp
        inp2 == IF Truthy(st.scene_list)
                THEN [inp1 EXCEPT !.scene_list = st.scene_list] ELSE inp1
    IN  [raised |-> FALSE, state |-> st, inputs |-> inp2, tasks |-> run_full_pipeline]

\* (variant: every attempt after the first runs the edit stages)
select_pipeline_edit_after_first(a, st, inp) ==
    [raised |-> FALSE, state |-> st, inputs |-> inp,
     tasks |-> IF a = 0 THEN run_full_pipeline ELSE run_edit_retry]

\* lines 415-460: which runner is called for this attempt, after the
\* scene-list recovery check; raised = TRUE when the check itself raises
select_pipeline(a, st, inp) ==
    IF a = 0 \/ st.last_retry_level = FULL_RETRY \/ st.last_retry_level = NoneVal
    THEN [raised |-> FALSE, state |-> st, inputs |-> inp, tasks |-> run_full_pipeline]
    ELSE IF st.last_retry_level = WRITE_ONLY
    THEN IF "scene_list" \in DOMAIN inp
         THEN LET scene_list == parse_and_normalize_scene_list(inp.scene_list) IN
              IF scene_list.raised
              THEN [raised |-> TRUE, state |-> st, inputs |-> inp, tasks |-> <<>>]
              ELSE IF ~scene_list.ok
              THEN [raised |-> FALSE, state |-> [st EXCEPT !.last_retry_level = FULL_RETRY],
                    inputs |-> inp, tasks |-> run_full_pipeline]
              ELSE [raised |-> FALSE, state |-> st,
                    inputs |-> IF Truthy(st.scene_list)
                               THEN [inp EXCEPT !.scene_list_for_write = st.scene_list]
                               ELSE inp,
                    tasks |-> run_write_retry]
         ELSE [raised |-> FALSE, state |-> [st EXCEPT !.last_retry_level = FULL_RETRY],
               inputs |-> inp, tasks |-> run_full_pipeline]
    ELSE IF st.last_retry_level = EDIT_ONLY
    THEN LET inp1 == IF TruthyText(st.draft_text)
                     THEN [inp EXCEPT !.draft_text_for_edit = st.draft_text] ELSE inp
             inp2 == IF Truthy(st.scene_list)
                     THEN [inp1 EXCEPT !.scene_list = st.scene_list] ELSE inp1
         IN  [raised |-> FALSE, state |-> st, inputs |-> inp2, tasks |-> run_edit_retry]
    ELSE [raised |-> FALSE, state |-> [st EXCEPT !.last_retry_level = FULL_RETRY],
          inputs |-> inp, tasks |-> run_full_pipeline]

\* (variant: an edit_only run also overwrites the draft)
update_state_from_result_edit_sets_draft(st, outputs) ==
    IF st.current_attempt = 0 \/ st.last_retry_level \in {NoneVal, FULL_RETRY}
    THEN IF Len(outputs) >= 5
         THEN IF outputs[1].pydantic = "none"
              THEN [raised |-> TRUE, state |-> st]
              ELSE [raised |-> FALSE,
                    state |-> [st EXCEPT !.scene_list =
                                             IF outputs[1].pydantic = "no_attr" THEN @
                                             ELSE model_dump_json(outputs[1].scenes),
                                         !.draft_text = outputs[2],
                                         !.revision_text = outputs[3]]]
         ELSE [raised |-> FALSE, state |-> st]
    ELSE IF st.last_retry_level = WRITE_ONLY
    THEN IF Len(outputs) >= 4
         THEN [raised |-> FALSE,
               state |-> [st EXCEPT !.draft_text = outputs[1], !.revision_text = outputs[2]]]
         ELSE [raised |-> FALSE, state |-> st]
    ELSE IF Len(outputs) >= 3
    THEN [raised |-> FALSE,
          state |-> [st EXCEPT !.draft_text = outputs[1], !.revision_text = outputs[1]]]
    ELSE [raised |-> FALSE, state |-> st]

\* _update_state_from_result(state, result); raised = TRUE is the
\* AttributeError of None.model_dump_json()
update_state_from_result(st, outputs) ==
    IF st.current_attempt = 0 \/ st.last_retry_level \in {NoneVal, FULL_RETRY}
    THEN IF Len(outputs) >= 5
         THEN IF outputs[1].pydantic = "none"
              THEN [raised |-> TRUE, state |-> st]
              ELSE [raised |-> FALSE,
                    state |-> [st EXCEPT !.scene_list =
                                             IF outputs[1].pydantic = "no_attr" THEN @
                                             ELSE model_dump_json(outputs[1].scenes),
                                         !.draft_text = outputs[2],
                                         !.revision_text = outputs[3]]]
         ELSE [raised |-> FALSE, state |-> st]
    ELSE IF st.last_retry_level = WRITE_ONLY
    THEN IF Len(outputs) >= 4
         THEN [raised |-> FALSE,
               state |-> [st EXCEPT !.draft_text = outputs[1], !.revision_text = outputs[2]]]
         ELSE [raised |-> FALSE, state |-> st]
    ELSE IF st.last_retry_level = EDIT_ONLY
    THEN IF Len(outputs) >= 3
         THEN [raised |-> FALSE, state |-> [st EXCEPT !.revision_text = outputs[1]]]
         ELSE [raised |-> FALSE, state |-> st]
    ELSE [raised |-> FALSE, state |-> st]

\* (variant: an edit_only run is read one position too low)
extract_result_edit_shifted(st, outputs) ==
    IF st.last_retry_level = EDIT_ONLY
    THEN [judge |-> outputs[1], updated_bible |-> outputs[2],
          revision_text |-> st.revision_text]
    ELSE IF st.last_retry_level = WRITE_ONLY
    THEN [judge |-> outputs[3], updated_bible |-> outputs[4],
          revision_text |-> st.revision_text]
    ELSE [judge |-> outputs[4], updated_bible |-> outputs[5],
          revision_text |-> st.revision_text]

\* lines 466-485: where judge and updated_bible are read in tasks_output
extract_result(st, outputs) ==
    IF st.last_retry_level = EDIT_ONLY
    THEN [judge |-> outputs[2], updated_bible |-> outputs[3],
          revision_text |-> st.revision_text]
    ELSE IF st.last_retry_level = WRITE_ONLY
    THEN [judge |-> outputs[3], updated_bible |-> outputs[4],
          revision_text |-> st.revision_text]
    ELSE [judge |-> outputs[4], updated_bible |-> outputs[5],
          revision_text |-> st.revision_text]

\* (variant: the guard counts every edit_only decision, whatever level ran)
check_retry_limits_counts_every_edit(st, retry_level) ==
    IF retry_level = EDIT_ONLY
    THEN IF st.edit_retry_count + 1 >= MAX_EDIT_RETRIES
         THEN [raised |-> FALSE, error |-> NoError, retry_level |-> WRITE_ONLY,
               state |-> [st EXCEPT !.edit_retry_count = 0]]
         ELSE [raised |-> FALSE, error |-> NoError, retry_level |-> retry_level,
               state |-> [st EXCEPT !.edit_retry_count = @ + 1]]
    ELSE [raised |-> TRUE, error |-> ValueError, retry_level |-> retry_level,
          state |-> [st EXCEPT !.edit_retry_count = 0]]

\* lines 501-517: the retry-count guard. write_retry_count is not a declared
\* field of ChapterGenerationState: reading it raises AttributeError,
\* assigning it raises ValueError.
check_retry_limits(st, retry_level) ==
    IF retry_level = EDIT_ONLY /\ st.last_retry_level = EDIT_ONLY
    THEN LET c == st.edit_retry_count + 1 IN
         IF c >= MAX_EDIT_RETRIES
         THEN [raised |-> FALSE, error |-> NoError, retry_level |-> WRITE_ONLY,
               state |-> [st EXCEPT !.edit_retry_count = 0]]
         ELSE [raised |-> FALSE, error |-> NoError, retry_level |-> retry_level,
               state |-> [st EXCEPT !.edit_retry_count = c]]
    ELSE IF retry_level = WRITE_ONLY /\ st.last_retry_level = WRITE_ONLY
    THEN IF ~HasField(st, "write_retry_count")
         THEN [raised |-> TRUE, error |-> AttributeError, retry_level |-> retry_level,
               state |-> st]
         ELSE LET c == st.write_retry_count + 1 IN
              IF c >= MAX_WRITE_RETRIES
              THEN [raised |-> FALSE, error |-> NoError, retry_level |-> FULL_RETRY,
                    state |-> [st EXCEPT !.write_retry_count = 0]]
              ELSE [raised |-> FALSE, error |-> NoError, retry_level |-> retry_level,
                    state |-> [st EXCEPT !.write_retry_count = c]]
    ELSE LET st1 == [st EXCEPT !.edit_retry_count = 0] IN
         IF ~HasField(st1, "write_retry_count")
         THEN [raised |-> TRUE, error |-> ValueError, retry_level |-> retry_level,
               state |-> st1]
         ELSE [raised |-> FALSE, error |-> NoError, retry_level |-> retry_level,
               state |-> [st1 EXCEPT !.write_retry_count = 0]]

\* the last kickoff record, completed with how the attempt ended
\* what the edit, judge and update_bible tasks of a kickoff delivered,
\* looked up by task name in the task list handed to Crew(...)
NoDelivery == [revision |-> NoneVal, judge |-> NoJudge, bible |-> NoneVal]

Delivered(tasks, outs) ==
    IF outs = <<>> THEN NoDelivery
    ELSE LET At(name) == outs[CHOOSE i \in 1..Len(tasks) : tasks[i] = name] IN
         [revision |-> At("edit_chapter"), judge |-> At("judge_chapter"),
          bible |-> At("update_bible")]

\* (outs: the tasks_output, kept when the call returns with this attempt;
\* instr: the joined revision_instructions of the attempt's failed verdict,
\* line 525, NoneVal when the attempt produced no failed verdict;
\* passed: the judge task of the kickoff delivered a report with passed=True;
\* e: the exception the except block caught, NoError when none was raised;
\* d: <<delay>> slept at lines 540-551, <<>> when time.sleep was not called)
EndRun(rs, how, level, instr, outs, passed, e, d) ==
    IF rs = <<>> \/ rs[Len(rs)].ended # "running" THEN rs
    ELSE [rs EXCEPT ![Len(rs)].ended = how, ![Len(rs)].classified = level,
                    ![Len(rs)].instructions = instr,
                    ![Len(rs)].outputs = Delivered(rs[Len(rs)].tasks, outs),
                    ![Len(rs)].verdict_passed = passed,
                    ![Len(rs)].error = e,
                    ![Len(rs)].delay = d]

\* (variant: the except block leaves the guidance as it is)
HandleException_keeps_guidance(e, a, st, cause, level, instr, passed) ==
    /\ state' = st
    /\ runs' = EndRun(runs, cause, level, instr, <<>>, passed, e,
                     IF a >= max_retries THEN <<>> ELSE <<backoff_delay(e, a)>>)
    /\ IF a >= max_retries
       THEN /\ result' = [NoResult EXCEPT !.kind = "raised", !.error = e,
                                          !.attempts = a + 1]
            /\ pc' = "done"
            /\ UNCHANGED <<attempt, inputs, slept>>
       ELSE /\ slept' = Append(slept, backoff_delay(e, a))
            /\ attempt' = a + 1
            /\ pc' = "loop"
            /\ UNCHANGED <<result, inputs>>

\* lines 528-554: the except block, for exception e caught in attempt a
\* with state st; cause names the statement that raised, passed tells
\* whether the kickoff had delivered a passing judge report
HandleException(e, a, st, cause, level, instr, passed) ==
    /\ state' = st
    /\ runs' = EndRun(runs, cause, level, instr, <<>>, passed, e,
                     IF a >= max_retries THEN <<>> ELSE <<backoff_delay(e, a)>>)
    /\ IF a >= max_retries
       THEN /\ result' = [NoResult EXCEPT !.kind = "raised", !.error = e,
                                          !.attempts = a + 1]
            /\ pc' = "done"
            /\ UNCHANGED <<attempt, inputs, slept>>
       ELSE /\ slept' = Append(slept, backoff_delay(e, a))
            /\ inputs' = [inputs EXCEPT !.revision_instructions = <<>>]
            /\ attempt' = a + 1
            /\ pc' = "loop"
            /\ UNCHANGED result

\* lines 410-460: the head of one loop iteration up to the kickoff call
BeginAttempt ==
    /\ pc = "loop"
    /\ UNCHANGED <<call, ret>>
    /\ attempt <= max_retries
    /\ LET st0 == [state EXCEPT !.current_attempt = attempt]
           sel == select_pipeline(attempt, st0, inputs)
       IN  IF sel.raised
           THEN HandleException(ZeroDivisionError, attempt, sel.state, "raised_before_run",
                                NoneVal, NoneVal, FALSE)
           ELSE /\ state' = sel.state
                /\ inputs' = sel.inputs
                /\ runs' = Append(runs, [attempt |-> attempt,
                                         due |-> state.last_retry_level,
                                         tasks |-> sel.tasks,
                                         ended |-> "running",
                                         classified |-> NoneVal,
                                         instructions |-> NoneVal,
                                         outputs |-> NoDelivery,
                                         verdict_passed |-> FALSE,
                                         error |-> NoError,
                                         delay |-> <<>>])
                /\ pc' = "running"
                /\ UNCHANGED <<attempt, slept, result>>

\* the kickoff raises: lines 528-554
KickoffRaises ==
    /\ pc = "running"
    /\ UNCHANGED <<call, ret>>
    /\ \E e \in ErrorPool :
         HandleException(e, attempt, state, "raised_in_stage", NoneVal, NoneVal, FALSE)

\* the kickoff returns tasks_output: lines 462-526, then the next iteration
\* or the return after the loop (lines 556-564)
KickoffReturns ==
    /\ pc = "running"
    /\ UNCHANGED <<call, ret>>
    /\ \E outputs \in TasksOutput(runs[Len(runs)].tasks) :
         LET upd == update_state_from_result(state, outputs)
             delivered == Delivered(runs[Len(runs)].tasks, outputs).judge
         IN
         IF upd.raised
         THEN HandleException(AttributeError, attempt, upd.state, "raised_in_update", NoneVal,
                              NoneVal, delivered.pydantic_ok /\ delivered.passed)
         ELSE
         LET st1 == upd.state
             ext == extract_result(st1, outputs)
             judge == ext.judge
         IN
         IF ~judge.pydantic_ok
         THEN HandleException(AttributeError, attempt, st1, "raised_in_judge", NoneVal, NoneVal,
                              FALSE)
         ELSE IF judge.passed
         THEN /\ result' = [NoResult EXCEPT !.kind = "returned",
                                            !.chapter_text = ext.revision_text,
                                            !.updated_bible = ext.updated_bible,
                                            !.judge_report = judge,
                                            !.attempts = attempt + 1]
              /\ state' = st1
              /\ runs' = EndRun(runs, "passed", NoneVal, NoneVal, outputs, TRUE, NoError,
                               <<>>)
              /\ pc' = "done"
              /\ UNCHANGED <<attempt, inputs, slept>>
         ELSE
         LET retry_level == determine_retry_level(judge, attempt)
             g == check_retry_limits(st1, retry_level)
         IN
         IF g.raised
         THEN HandleException(g.error, attempt, g.state, "raised_in_guard", retry_level,
                              JoinLines(judge.revision_instructions), FALSE)
         ELSE
         LET st2 == [g.state EXCEPT !.last_retry_level = g.retry_level]
             inp1 == inputs_update(inputs, to_preserve(st2, g.retry_level))
             inp2 == [inp1 EXCEPT !.revision_instructions =
                                      JoinLines(judge.revision_instructions)]
         IN
         /\ state' = st2
         /\ inputs' = inp2
         /\ runs' = EndRun(runs, "failed", retry_level,
                         JoinLines(judge.revision_instructions),
                         IF attempt >= max_retries THEN outputs ELSE <<>>,
                         FALSE, NoError, <<>>)
         /\ UNCHANGED slept
         /\ IF attempt >= max_retries
            THEN /\ result' = [NoResult EXCEPT !.kind = "returned",
                                               !.chapter_text = ext.revision_text,
                                               !.updated_bible = ext.updated_bible,
                                               !.judge_report = judge,
                                               !.attempts = max_retries + 1,
                                               !.success = "False"]
                 /\ pc' = "done"
                 /\ UNCHANGED attempt
            ELSE /\ attempt' = attempt + 1
                 /\ pc' = "loop"
                 /\ UNCHANGED result

Next ==
    \/ BeginAttempt
    \/ KickoffRaises
    \/ KickoffReturns

Spec == Init /\ [][Next]_vars

\* The loop body is sequential code and a kickoff is a blocking call that
\* returns or raises: whenever a step is possible, one is taken.
FairSpec == Init /\ [][Next]_vars /\ WF_vars(Next)

TypeOK ==
    /\ pc \in {"loop", "running", "done"}
    /\ attempt \in 0..max_retries
    /\ state.last_retry_level \in RetryLevel \cup {NoneVal}
    /\ result.kind \in {"none", "returned", "raised"}

\* ------------------------------------------------------------------------
\* determine_retry_level called on its own
\* ------------------------------------------------------------------------
\* most issues in a report handed to determine_retry_level
MaxClassifyIssues == 2

\* largest attempt index handed to determine_retry_level
MaxAttemptArg == 3

\* every Issue the model validates: Issue.type and Issue.severity are Literals
AllIssues == [type : IssueTypes, severity : Severities]

\* JudgeReport.issues is a list; determine_retry_level reads it through a
\* set comprehension and any(), so order and repetition do not matter
RECURSIVE IssueSetsUpTo(_)
IssueSetsUpTo(k) ==
    IF k = 0 THEN {{}}
    ELSE IssueSetsUpTo(k - 1)
         \cup {s \cup {i} : s \in IssueSetsUpTo(k - 1), i \in AllIssues}

\* failed reports: determine_retry_level is called after `if judge.passed`
FailedReports ==
    {[pydantic_ok |-> TRUE, passed |-> FALSE, issues |-> s,
      revision_instructions |-> <<>>] : s \in IssueSetsUpTo(MaxClassifyIssues)}

\* generate_chapter is not running
NotGenerating ==
    /\ pc = "idle"
    /\ attempt = 0
    /\ state = ChapterGenerationState
    /\ inputs = [scene_list |-> EmptyStr, scene_list_for_write |-> EmptyStr,
                 draft_text_for_edit |-> "", revision_instructions |-> <<>>]
    /\ runs = <<>>
    /\ slept = <<>>
    /\ result = NoResult

ClassifyInit ==
    /\ NotGenerating
    /\ \E v \in FailedReports, a \in 0..MaxAttemptArg :
         call = [fn |-> "determine_retry_level", judge_report |-> v, attempt |-> a]
    /\ ret = NoReturn

Classify ==
    /\ call.fn = "determine_retry_level"
    /\ ~ret.returned
    /\ ret' = Returned(determine_retry_level(call.judge_report, call.attempt))
    /\ UNCHANGED <<crew_vars, call>>

ClassifySpec == ClassifyInit /\ [][Classify]_vars

\* ------------------------------------------------------------------------
\* _normalize_scene_list_word_count called on its own
\* ------------------------------------------------------------------------
\* most scenes in a plan handed to _normalize_scene_list_word_count
MaxScenes == 3

\* Scene.target_words is an unconstrained int.  The values are chosen so
\* that plans sum to 2899, 2900, 3000, 3100, 3101, to 0 and below 0, and so
\* that scaled targets fall on exact halves (91 of 560)
TargetWordsPool == {0 - 400, 0, 91, 469, 1000, 1449, 1450, 1451, 1550, 1551, 1650}

RECURSIVE ScenePlansOfLen(_)
ScenePlansOfLen(n) ==
    IF n = 0 THEN {<<>>}
    ELSE {Append(p, t) : p \in ScenePlansOfLen(n - 1), t \in TargetWordsPool}

\* SceneList.scenes as the sequence of its target_words; the empty plan is
\* the default of the field
ScenePlans == UNION {ScenePlansOfLen(n) : n \in 0..MaxScenes}

NormalizeInit ==
    /\ NotGenerating
    /\ \E p \in ScenePlans :
         call = [fn |-> "_normalize_scene_list_word_count", scenes |-> p]
    /\ ret = NoReturn

Normalize ==
    /\ call.fn = "_normalize_scene_list_word_count"
    /\ ~ret.returned
    /\ ret' = Returned(normalize_scene_list_word_count(call.scenes))
    /\ UNCHANGED <<crew_vars, call>>

NormalizeSpec == NormalizeInit /\ [][Normalize]_vars

\* ------------------------------------------------------------------------
\* _normalize_scene_list_word_count on plans of up to four scenes with
\* small non-negative targets
\* ------------------------------------------------------------------------
\* most scenes in such a plan
MaxSmallScenes == 4

\* targets for which three scaled values can all round up (1, 1 and 5 of 7)
SmallWordsPool == {0, 1, 5, 1000}

RECURSIVE SmallPlansOfLen(_)
SmallPlansOfLen(n) ==
    IF n = 0 THEN {<<>>}
    ELSE {Append(p, t) : p \in SmallPlansOfLen(n - 1), t \in SmallWordsPool}

SmallPlans == UNION {SmallPlansOfLen(n) : n \in 0..MaxSmallScenes}

SmallPlanInit ==
    /\ NotGenerating
    /\ \E p \in SmallPlans :
         call = [fn |-> "_normalize_scene_list_word_count", scenes |-> p]
    /\ ret = NoReturn

SmallPlanSpec == SmallPlanInit /\ [][Normalize]_vars

\* ------------------------------------------------------------------------
\* ChapterGenerationState.to_preserve called on its own
\* ------------------------------------------------------------------------
\* every field of ChapterGenerationState is assignable: Optional[str] fields
\* hold None, "" or a text, scene_list None, "" or a SceneList JSON string
GenerationStates ==
    [scene_list : {NoneSL, EmptyStr} \cup {model_dump_json(p) : p \in PlanPool},
     draft_text : {NoneVal} \cup DraftPool,
     revision_text : {NoneVal} \cup RevisionPool,
     current_attempt : 0..max_retries,
     last_retry_level : RetryLevel \cup {NoneVal},
     edit_retry_count : 0..(MAX_EDIT_RETRIES - 1)]

PreserveInit ==
    /\ NotGenerating
    /\ \E st \in GenerationStates, level \in RetryLevel :
         call = [fn |-> "to_preserve", self |-> st, retry_level |-> level]
    /\ ret = NoReturn

Preserve ==
    /\ call.fn = "to_preserve"
    /\ ~ret.returned
    /\ ret' = Returned(to_preserve(call.self, call.retry_level))
    /\ UNCHANGED <<crew_vars, call>>

PreserveSpec == PreserveInit /\ [][Preserve]_vars

\* ------------------------------------------------------------------------
\* _update_state_from_result called on its own, after the pipeline that
\* lines 415-460 select for the state
\* ------------------------------------------------------------------------
\* most runs absorbed one after the other
MaxAbsorbs == 2

\* tasks_output of a run, varied in the positions _update_state_from_result
\* reads; it reads neither the judge report nor the updated bible
ArtifactOutputs(tasks) ==
    IF tasks = run_full_pipeline
    THEN {<<p, d, r, NoJudge, "bible_a">> :
              p \in PlanOutputs, d \in DraftPool, r \in RevisionPool}
    ELSE IF tasks = run_write_retry
    THEN {<<d, r, NoJudge, "bible_a">> : d \in DraftPool, r \in RevisionPool}
    ELSE {<<r, NoJudge, "bible_a">> : r \in RevisionPool}

AbsorbInit ==
    /\ NotGenerating
    /\ \E st \in GenerationStates,
          sl \in {EmptyStr} \cup {model_dump_json(p) : p \in PlanPool} :
         call = [fn |-> "_update_state_from_result",
                 self |-> select_pipeline(st.current_attempt, st,
                                          [inputs EXCEPT !.scene_list = sl]).state,
                 tasks |-> select_pipeline(st.current_attempt, st,
                                           [inputs EXCEPT !.scene_list = sl]).tasks]
    /\ ret = NoReturn

Absorb ==
    /\ call.fn = "_update_state_from_result"
    /\ \/ ~ret.returned
       \/ ret.returned /\ ~ret.value.raised /\ ret.value.absorbed < MaxAbsorbs
    /\ \E outputs \in ArtifactOutputs(call.tasks) :
         ret' = Returned(
                  [raised |-> update_state_from_result(
                                  IF ret.returned THEN ret.value.state ELSE call.self,
                                  outputs).raised,
                   state |-> update_state_from_result(
                                  IF ret.returned THEN ret.value.state ELSE call.self,
                                  outputs).state,
                   absorbed |-> IF ret.returned THEN ret.value.absorbed + 1 ELSE 1])
    /\ UNCHANGED <<crew_vars, call>>

AbsorbSpec == AbsorbInit /\ [][Absorb]_vars

\* ------------------------------------------------------------------------
\* _parse_and_normalize_scene_list called on its own
\* ------------------------------------------------------------------------
\* the strings handed to it: "" (the placeholder of line 400) or the JSON of
\* a SceneList, as SceneList.model_dump_json() writes it
StoredPlans == {EmptyStr} \cup {model_dump_json(p) : p \in ScenePlans}

RecoverInit ==
    /\ NotGenerating
    /\ \E s \in StoredPlans :
         call = [fn |-> "_parse_and_normalize_scene_list", scene_list_json |-> s]
    /\ ret = NoReturn

ParseAndNormalize ==
    /\ call.fn = "_parse_and_normalize_scene_list"
    /\ ~ret.returned
    /\ ret' = Returned(parse_and_normalize_scene_list(call.scene_list_json))
    /\ UNCHANGED <<crew_vars, call>>

RecoverSpec == RecoverInit /\ [][ParseAndNormalize]_vars

\* ------------------------------------------------------------------------
\* One loop iteration from its head to the extraction of the verdict
\* (lines 410-485), for every state an iteration can start in
\* ------------------------------------------------------------------------
\* at attempt 0 the state is the one line 393 has just constructed
IterationStates ==
    {st \in GenerationStates : st.current_attempt = 0 => st = ChapterGenerationState}

\* tasks_output of a kickoff in which every output carries the name of the
\* task that produced it; plan is what the plan stage's output holds
StampedOutputs(tasks, plan) ==
    [i \in 1..Len(tasks) |->
        IF tasks[i] = "plan_chapter"
        THEN [stage |-> tasks[i], pydantic |-> plan.pydantic, scenes |-> plan.scenes]
        ELSE [stage |-> tasks[i], pydantic |-> "object", scenes |-> <<>>]]

IterationInit ==
    /\ NotGenerating
    /\ \E st \in IterationStates,
          sl \in {EmptyStr} \cup {model_dump_json(p) : p \in PlanPool} :
         call = [fn |-> "generate_chapter.iteration",
                 attempt |-> st.current_attempt,
                 state |-> st,
                 inputs |-> [inputs EXCEPT !.scene_list = sl]]
    /\ ret = NoReturn

\* lines 414-485: select the runner, kickoff returns, absorb, extract
RunIteration ==
    /\ call.fn = "generate_chapter.iteration"
    /\ ~ret.returned
    /\ \E plan \in PlanOutputs :
         LET sel == select_pipeline(call.attempt, call.state, call.inputs)
             outputs == StampedOutputs(sel.tasks, plan)
             upd == update_state_from_result(sel.state, outputs)
         IN  ret' = Returned([raised |-> sel.raised \/ upd.raised,
                              tasks |-> sel.tasks,
                              outputs |-> outputs,
                              state |-> upd.state,
                              read |-> IF sel.raised \/ upd.raised
                                       THEN [judge |-> NoneVal, updated_bible |-> NoneVal,
                                             revision_text |-> NoneVal]
                                       ELSE extract_result(upd.state, outputs)])
    /\ UNCHANGED <<crew_vars, call>>

IterationSpec == IterationInit /\ [][RunIteration]_vars

\* ------------------------------------------------------------------------
\* Phase 2 of main.run: the loop over the chapters (main.py lines 242-367)
\* ------------------------------------------------------------------------
\* range(1, 10)
NUM_CHAPTERS == 9

\* how a generate_chapter call ends: the return at lines 489-494 (the
\* verdict passed) or an exception re-raised at line 535.  The return after
\* the loop (lines 556-564) is never reached: the third failed verdict ends
\* in the guard's ValueError.  updated_bible is the pydantic object of the
\* update_bible stage
ChapterOutcomes ==
    {[kind |-> "passed", updated_bible |-> [form |-> "object", content |-> b]] :
        b \in BiblePool}
    \cup {[kind |-> "raised", updated_bible |-> [form |-> "none", content |-> NoneVal]]}

\* main.py lines 272-273: a pydantic object is replaced by its model_dump()
model_dump(b) == IF b.form = "object" THEN [b EXCEPT !.form = "dict"] ELSE b

\* (variant: run stops at the first chapter that raises)
next_chapter_num_stop_on_raise(n, outcome) ==
    IF outcome.kind = "raised" THEN NUM_CHAPTERS + 1 ELSE n + 1

\* the for statement with the continue at line 356: the next chapter number
next_chapter_num(n, outcome) == n + 1

\* (variant: the bible is never handed on)
next_bible_never_replaced(current_bible, outcome) == current_bible

\* main.py lines 267-273, 317-335, 352-356: current_bible after a chapter;
\* both branches of the quality-gate test assign updated_bible
next_bible(current_bible, outcome) ==
    IF outcome.kind = "raised" THEN current_bible
    ELSE model_dump(outcome.updated_bible)

\* call holds run's locals: the chapter about to be generated, the bible it
\* will be given, every generate_chapter call made so far (with the state
\* line 393 of the callee constructs) and how the last call ended
RunInit ==
    /\ NotGenerating
    /\ call = [fn |-> "run",
               chapter_num |-> 1,
               current_bible |-> [form |-> "dict", content |-> "story_bible"],
               calls |-> <<>>,
               last |-> [kind |-> "none",
                         received |-> [form |-> "none", content |-> NoneVal],
                         updated_bible |-> [form |-> "none", content |-> NoneVal]]]
    /\ ret = NoReturn

\* one iteration of the loop at main.py line 246
GenerateChapter ==
    /\ call.fn = "run"
    /\ call.chapter_num <= NUM_CHAPTERS
    /\ \E outcome \in ChapterOutcomes :
         call' = [call EXCEPT
                    !.chapter_num = next_chapter_num(call.chapter_num, outcome),
                    !.current_bible = next_bible(call.current_bible, outcome),
                    !.calls = Append(@, [chapter_number |-> call.chapter_num,
                                         story_bible |-> call.current_bible,
                                         state |-> ChapterGenerationState]),
                    !.last = [kind |-> outcome.kind,
                              received |-> call.current_bible,
                              updated_bible |-> outcome.updated_bible]]
    /\ UNCHANGED <<crew_vars, ret>>

RunSpec == RunInit /\ [][GenerateChapter]_vars

\* ------------------------------------------------------------------------
\* Properties of generate_chapter
\* ------------------------------------------------------------------------

\* C1: every call of generate_chapter terminates; it makes at most 3
\* attempts (indices 0, 1, 2) with at most one kickoff per attempt, and it
\* ends in exactly one of: a returned result whose verdict passed, a
\* returned result with success=False, a raised exception.
C1_TerminatesWithinBudget ==
    /\ [](/\ attempt \in 0..2
          /\ Len(runs) <= 3
          /\ \A i \in 1..Len(runs) : runs[i].attempt \in 0..2
          /\ \A i, j \in 1..Len(runs) : i < j => runs[i].attempt < runs[j].attempt
          /\ pc # "done" => result.kind = "none"
          /\ pc = "done" =>
               LET passedResult == result.kind = "returned" /\ result.judge_report.passed
                                   /\ result.success = "absent"
                   exhausted == result.kind = "returned" /\ result.success = "False"
                   raisedExc == result.kind = "raised"
               IN  /\ passedResult \/ exhausted \/ raisedExc
                   /\ ~(passedResult /\ exhausted)
                   /\ ~(passedResult /\ raisedExc)
                   /\ ~(exhausted /\ raisedExc))
    /\ <>(pc = "done")

C1_Witness ==
    pc = "done" /\ Len(runs) = 3 /\ result.kind = "returned" /\ result.attempts = 3

\* C2 (as claimed): a kickoff whose judge task delivered a report with
\* passed=True ends the call at once: it is the last kickoff, the call
\* returns with attempts = attempt index + 1 (attempts that raised are
\* counted), that report, the updated bible and the edit output of that same
\* kickoff, and no success flag.
C2_PassReturnsAtOnce ==
    \A i \in 1..Len(runs) :
        runs[i].verdict_passed =>
            /\ i = Len(runs)
            /\ pc = "done"
            /\ result.kind = "returned"
            /\ result.success = "absent"
            /\ result.attempts = runs[i].attempt + 1
            /\ result.judge_report = runs[i].outputs.judge
            /\ result.judge_report.passed
            /\ result.updated_bible = runs[i].outputs.bible
            /\ result.chapter_text = runs[i].outputs.revision

\* C3 (as claimed): when all three kickoffs return and every judge report
\* has passed=False, the call raises nothing and returns success=False,
\* attempts=3 and the report, revision text and updated bible of attempt 2.
C3_ExhaustedReturnsFailure ==
    (/\ pc = "done"
     /\ Len(runs) = 3
     /\ \A i \in 1..3 : runs[i].ended \in {"failed", "raised_in_guard"})
    => /\ result.kind = "returned"
       /\ result.success = "False"
       /\ result.attempts = 3
       /\ result.judge_report = runs[3].outputs.judge
       /\ result.updated_bible = runs[3].outputs.bible
       /\ result.chapter_text = runs[3].outputs.revision

\* C4 (as claimed): the call raises exactly when stage execution raises in
\* attempt 2; an exception in attempt 0 or 1 is followed by the next
\* attempt, and a failed judge report alone never makes the call raise.
C4_RaisesOnlyOnFinalStageFailure ==
    /\ pc = "done" =>
         (result.kind = "raised" <=>
            /\ runs # <<>>
            /\ runs[Len(runs)].attempt = 2
            /\ runs[Len(runs)].ended \in
                 {"raised_in_stage", "raised_in_update", "raised_in_judge"})
    /\ \A i \in 1..Len(runs) :
         (runs[i].attempt < 2 /\ runs[i].ended \notin {"running", "passed"})
            => (result.kind # "raised" /\ (pc = "done" => Len(runs) > i))

\* C5: attempt 0, and every attempt that starts with last_retry_level None
\* or full_retry, hands Crew exactly the five tasks plan, write, edit,
\* judge, update_bible in that order.
C5_FirstAttemptRunsFullPipeline ==
    \A i \in 1..Len(runs) :
        (runs[i].attempt = 0 \/ runs[i].due \in {NoneVal, FULL_RETRY})
            => runs[i].tasks = <<"plan_chapter", "write_chapter", "edit_chapter",
                                 "judge_chapter", "update_bible">>

C5_Witness ==
    /\ Len(runs) >= 2
    /\ runs[1].attempt = 0
    /\ runs[2].attempt = 1
    /\ runs[2].due = NoneVal
    /\ runs[2].ended = "passed"

\* C6 (as claimed): an attempt that follows a failed judge report runs the
\* level recorded after that report: the classifier's result or the level
\* it was escalated to; and when attempts 0 and 1 both fail with an
\* edit_only classification, attempts 1 and 2 both run edit, judge,
\* update_bible only.
C6_RunsRecordedLevel ==
    /\ \A i \in 2..Len(runs) :
         runs[i - 1].ended \in {"failed", "raised_in_guard"} =>
            LET L == runs[i - 1].classified
                D == runs[i].due
            IN  /\ \/ D = L
                   \/ L = EDIT_ONLY /\ D = WRITE_ONLY
                   \/ L = WRITE_ONLY /\ D = FULL_RETRY
                /\ D = EDIT_ONLY => runs[i].tasks = run_edit_retry
                /\ D = WRITE_ONLY => runs[i].tasks \in {run_write_retry, run_full_pipeline}
                /\ D = FULL_RETRY => runs[i].tasks = run_full_pipeline
    /\ (/\ Len(runs) = 3
        /\ \A i \in 1..2 : /\ runs[i].ended \in {"failed", "raised_in_guard"}
                           /\ runs[i].classified = EDIT_ONLY)
       => runs[2].tasks = run_edit_retry /\ runs[3].tasks = run_edit_retry

\* C7 (as claimed): the attempt run after an edit_only decision hands Crew
\* exactly edit, judge, update_bible, with the stored scene list and the
\* stored draft text as inputs.
C7_EditOnlyRun ==
    (/\ pc = "running"
     /\ Len(runs) >= 2
     /\ runs[Len(runs) - 1].ended \in {"failed", "raised_in_guard"}
     /\ runs[Len(runs) - 1].classified = EDIT_ONLY
     /\ runs[Len(runs) - 1].tasks = run_full_pipeline)
    => /\ runs[Len(runs)].tasks = run_edit_retry
       /\ inputs.scene_list = state.scene_list
       /\ inputs.draft_text_for_edit = state.draft_text

\* C8 (as claimed): the attempt run after a write_only decision with a valid
\* stored scene list hands Crew exactly write, edit, judge, update_bible,
\* with the stored scene list as input and without a draft_text_for_edit
\* input.
C8_WriteOnlyRun ==
    (/\ pc = "running"
     /\ Len(runs) >= 2
     /\ runs[Len(runs) - 1].ended \in {"failed", "raised_in_guard"}
     /\ runs[Len(runs) - 1].classified = WRITE_ONLY
     /\ runs[Len(runs) - 1].tasks = run_full_pipeline
     /\ parse_scene_list_safe(state.scene_list).ok)
    => /\ runs[Len(runs)].tasks = run_write_retry
       /\ inputs.scene_list = state.scene_list
       /\ "draft_text_for_edit" \notin DOMAIN inputs

\* C9: an attempt k >= 1 that runs the full pipeline is handed the empty
\* scene_list placeholder and no earlier draft text as draft_text_for_edit.
C9_FullRetryCarriesNothing ==
    (/\ pc = "running"
     /\ runs[Len(runs)].attempt >= 1
     /\ runs[Len(runs)].tasks = run_full_pipeline)
    => /\ inputs.scene_list = EmptyStr
       /\ inputs.draft_text_for_edit = ""

C9_Witness ==
    /\ pc = "running"
    /\ Len(runs) = 3
    /\ runs[3].attempt = 2
    /\ runs[3].tasks = run_full_pipeline
    /\ runs[2].ended = "raised_in_guard"
    /\ Truthy(state.scene_list)
    /\ TruthyText(state.draft_text)

\* C10 (as claimed): an attempt due to run write_only whose stored scene
\* list is unset or does not parse runs the full pipeline in that same
\* attempt, with last_retry_level set to full_retry before the run, without
\* raising and without consuming an extra attempt.
C10_WriteOnlyFallback ==
    (/\ pc = "running"
     /\ Len(runs) >= 2
     /\ runs[Len(runs) - 1].ended \in {"failed", "raised_in_guard"}
     /\ runs[Len(runs) - 1].classified = WRITE_ONLY
     /\ runs[Len(runs) - 1].tasks = run_full_pipeline
     /\ ~parse_scene_list_safe(state.scene_list).ok)
    => /\ runs[Len(runs)].tasks = run_full_pipeline
       /\ state.last_retry_level = FULL_RETRY
       /\ runs[Len(runs)].attempt = runs[Len(runs) - 1].attempt + 1
       /\ result.kind = "none"

\* ------------------------------------------------------------------------
\* Properties of determine_retry_level (ClassifySpec)
\* ------------------------------------------------------------------------

\* C11: for every report, whatever its issues (none included), and every
\* attempt >= 2, determine_retry_level returns FULL_RETRY.
C11_LastAttemptIsFullRetry ==
    (call.fn = "determine_retry_level" /\ ret.returned /\ call.attempt >= 2)
        => ret.value = FULL_RETRY

C11_Witness ==
    /\ call.fn = "determine_retry_level"
    /\ call.attempt = 2
    /\ call.judge_report.issues = {[type |-> "prose", severity |-> "low"]}
    /\ ret.returned
    /\ ret.value = FULL_RETRY

\* C12: for every attempt, a report with at least one structure issue is
\* classified FULL_RETRY, whatever that issue's severity and whatever other
\* issues the report holds.
C12_StructureIsFullRetry ==
    (/\ call.fn = "determine_retry_level"
     /\ ret.returned
     /\ \E i \in call.judge_report.issues : i.type = "structure")
        => ret.value = FULL_RETRY

C12_Witness ==
    /\ call.fn = "determine_retry_level"
    /\ call.attempt = 0
    /\ call.judge_report.issues = {[type |-> "structure", severity |-> "low"],
                                   [type |-> "safety", severity |-> "low"]}
    /\ ret.returned
    /\ ret.value = FULL_RETRY

\* C13: for attempt < 2, a report with no structure issue and at least one
\* safety issue is classified FULL_RETRY when some safety issue is high or
\* critical and EDIT_ONLY when every safety issue is low or medium, whatever
\* other non-structure issues it holds.
C13_SafetySeveritySplit ==
    (/\ call.fn = "determine_retry_level"
     /\ ret.returned
     /\ call.attempt < 2
     /\ \A i \in call.judge_report.issues : i.type # "structure"
     /\ \E i \in call.judge_report.issues : i.type = "safety")
        => ret.value = IF \E i \in call.judge_report.issues :
                        i.type = "safety" /\ i.severity \in {"high", "critical"}
                 THEN FULL_RETRY ELSE EDIT_ONLY

C13_Witness ==
    /\ call.fn = "determine_retry_level"
    /\ call.attempt = 1
    /\ call.judge_report.issues = {[type |-> "safety", severity |-> "medium"],
                                   [type |-> "motivation", severity |-> "critical"]}
    /\ ret.returned
    /\ ret.value = EDIT_ONLY

\* C14: for attempt < 2, a report with no structure and no safety issue is
\* classified WRITE_ONLY when some issue is of type motivation, hook,
\* clue_fairness or continuity (prose, pacing, word_count issues may be
\* there too), and EDIT_ONLY when it has issues and all are of type prose,
\* pacing or word_count; severities play no part.
C14_WriteBeforeEdit ==
    (/\ call.fn = "determine_retry_level"
     /\ ret.returned
     /\ call.attempt < 2
     /\ \A i \in call.judge_report.issues : i.type \notin {"structure", "safety"})
        => /\ (\E i \in call.judge_report.issues : i.type \in WriteTypes)
                => ret.value = WRITE_ONLY
           /\ (/\ call.judge_report.issues # {}
               /\ \A i \in call.judge_report.issues : i.type \in EditTypes)
                => ret.value = EDIT_ONLY

C14_Witness ==
    /\ call.fn = "determine_retry_level"
    /\ call.attempt = 1
    /\ call.judge_report.issues = {[type |-> "hook", severity |-> "low"],
                                   [type |-> "pacing", severity |-> "critical"]}
    /\ ret.returned
    /\ ret.value = WRITE_ONLY

\* C15: for attempt < 2, a failed report on which no type rule matches is
\* classified WRITE_ONLY, and every classification is one of the three
\* levels.  Issue.type is a Literal of the nine types, each of which has a
\* rule, so the report on which no rule matches is the one without issues.
C15_DefaultIsWriteOnly ==
    (call.fn = "determine_retry_level" /\ ret.returned)
        => /\ ret.value \in RetryLevel
           /\ (/\ call.attempt < 2
               /\ \A i \in call.judge_report.issues :
                      i.type \notin {"structure", "safety"} \cup WriteTypes \cup EditTypes)
                => ret.value = WRITE_ONLY

C15_Witness ==
    /\ call.fn = "determine_retry_level"
    /\ call.attempt = 0
    /\ call.judge_report.issues = {}
    /\ ret.returned
    /\ ret.value = WRITE_ONLY

\* C16 (as claimed): for attempt < 2, a report with issues is classified as
\* the level of largest scope (FULL_RETRY > WRITE_ONLY > EDIT_ONLY, the
\* order of their required task lists) among the levels each of its issues
\* yields when it is the only issue of the report.
C16_HighestScopeWins ==
    (/\ call.fn = "determine_retry_level"
     /\ ret.returned
     /\ call.attempt < 2
     /\ call.judge_report.issues # {})
        => /\ \E i \in call.judge_report.issues :
                 ret.value = determine_retry_level(
                           [call.judge_report EXCEPT !.issues = {i}], call.attempt)
           /\ \A i \in call.judge_report.issues :
                 Len(required_tasks(ret.value)) >=
                 Len(required_tasks(determine_retry_level(
                           [call.judge_report EXCEPT !.issues = {i}], call.attempt)))

\* ------------------------------------------------------------------------
\* Escalation in generate_chapter (Spec)
\* ------------------------------------------------------------------------

\* C17 (as claimed, first decision): when the reports of attempts 0 and 1
\* are both classified edit_only, attempt 1 is the edit_only run, the guard
\* counts it (edit_retry_count = 1) and the level recorded for attempt 2
\* stays edit_only.
C17_EditStreakCounted ==
    (/\ pc = "loop"
     /\ Len(runs) = 2
     /\ runs[1].classified = EDIT_ONLY
     /\ runs[2].classified = EDIT_ONLY)
    => /\ runs[2].tasks = run_edit_retry
       /\ state.edit_retry_count = 1
       /\ state.last_retry_level = EDIT_ONLY

\* C18: the pipeline run in attempt k+1 never has a smaller scope than the
\* level determine_retry_level returned for the failed report of attempt k
\* (a pipeline is the level's required tasks followed by update_bible).
C18_NeverBelowClassified ==
    \A k \in 1..(Len(runs) - 1) :
        runs[k].classified # NoneVal
            => Len(runs[k + 1].tasks) >= Len(required_tasks(runs[k].classified)) + 1

C18_Witness ==
    /\ Len(runs) = 3
    /\ runs[1].classified = WRITE_ONLY
    /\ runs[2].classified = EDIT_ONLY
    /\ runs[2].tasks = run_full_pipeline
    /\ runs[3].tasks = run_full_pipeline

\* ------------------------------------------------------------------------
\* Properties of _normalize_scene_list_word_count (NormalizeSpec)
\* ------------------------------------------------------------------------

\* C19: a plan whose targets sum to within 100 of 3000, 2900 and 3100
\* included, is returned with every target as it was.
C19_WithinToleranceUnchanged ==
    (/\ call.fn = "_normalize_scene_list_word_count"
     /\ ret.returned
     /\ SumSeq(call.scenes) >= target_total - tolerance
     /\ SumSeq(call.scenes) <= target_total + tolerance)
        => /\ ~ret.value.raised
           /\ ret.value.scenes = call.scenes

C19_Witness ==
    /\ call.fn = "_normalize_scene_list_word_count"
    /\ call.scenes = <<1550, 1550>>
    /\ SumSeq(call.scenes) = target_total + tolerance
    /\ ret.returned
    /\ ret.value.scenes = <<1550, 1550>>

\* C20: a plan whose targets sum to a positive value outside [2900, 3100]
\* comes back with as many scenes, targets summing to exactly 3000, and
\* every target but the last a nearest integer of target * 3000 / sum
\* (2 * |new * sum - 3000 * target| <= sum); the last target is what is
\* left of 3000.
C20_RescaledToTarget ==
    (/\ call.fn = "_normalize_scene_list_word_count"
     /\ ret.returned
     /\ SumSeq(call.scenes) > 0
     /\ Abs(SumSeq(call.scenes) - target_total) > tolerance)
        => /\ ~ret.value.raised
           /\ Len(ret.value.scenes) = Len(call.scenes)
           /\ SumSeq(ret.value.scenes) = target_total
           /\ \A i \in 1..(Len(call.scenes) - 1) :
                 2 * Abs(ret.value.scenes[i] * SumSeq(call.scenes)
                         - target_total * call.scenes[i]) <= SumSeq(call.scenes)
           /\ ret.value.scenes[Len(call.scenes)] =
                 target_total - SumSeq(SubSeq(ret.value.scenes, 1, Len(call.scenes) - 1))

\* a plan whose rounded targets do not sum to 3000: <<91, 91, 469>> sums to
\* 651 and scales to 419, 419, 2161, which sum to 2999; the last scene
\* gets the 1 that is left
C20_Witness ==
    /\ call.fn = "_normalize_scene_list_word_count"
    /\ call.scenes = <<91, 91, 469>>
    /\ ret.returned
    /\ ~ret.value.raised
    /\ ret.value.scenes = <<419, 419, 2162>>

\* ------------------------------------------------------------------------
\* Properties of to_preserve (PreserveSpec)
\* ------------------------------------------------------------------------

\* C21 (as claimed): to_preserve returns no key for FULL_RETRY; for
\* WRITE_ONLY the key scene_list exactly when state.scene_list is set (not
\* None) and never draft_text_for_edit; for EDIT_ONLY scene_list and
\* draft_text_for_edit, each exactly when its state field is set; a key
\* that is present carries the state's value.
C21_PreservedWhenSet ==
    (call.fn = "to_preserve" /\ ret.returned)
        => /\ ("scene_list" \in ret.value.keys)
                <=> (call.retry_level \in {EDIT_ONLY, WRITE_ONLY}
                     /\ call.self.scene_list # NoneSL)
           /\ ("draft_text_for_edit" \in ret.value.keys)
                <=> (call.retry_level = EDIT_ONLY /\ call.self.draft_text # NoneVal)
           /\ ret.value.keys \subseteq {"scene_list", "draft_text_for_edit"}
           /\ ret.value.scene_list = call.self.scene_list
           /\ ret.value.draft_text_for_edit = call.self.draft_text

\* C21 (amended): as above, with "set" read as Python truthiness: a key is
\* present exactly when its state field is neither None nor the empty
\* string.
C21_PreservedWhenNonEmpty ==
    (call.fn = "to_preserve" /\ ret.returned)
        => /\ ("scene_list" \in ret.value.keys)
                <=> (call.retry_level \in {EDIT_ONLY, WRITE_ONLY}
                     /\ call.self.scene_list \notin {NoneSL, EmptyStr})
           /\ ("draft_text_for_edit" \in ret.value.keys)
                <=> (call.retry_level = EDIT_ONLY
                     /\ call.self.draft_text \notin {NoneVal, ""})
           /\ ret.value.keys \subseteq {"scene_list", "draft_text_for_edit"}
           /\ ret.value.scene_list = call.self.scene_list
           /\ ret.value.draft_text_for_edit = call.self.draft_text

C21_Witness ==
    /\ call.fn = "to_preserve"
    /\ call.retry_level = EDIT_ONLY
    /\ call.self.scene_list = model_dump_json(<<1500, 500>>)
    /\ call.self.draft_text = ""
    /\ call.self.revision_text = "revision_a"
    /\ ret.returned
    /\ ret.value.keys = {"scene_list"}

\* ------------------------------------------------------------------------
\* Properties of _update_state_from_result (AbsorbSpec)
\* ------------------------------------------------------------------------

\* C24: absorbing the outputs of one or more runs of the same pipeline
\* changes scene_list only when the full pipeline ran, draft_text only when
\* the full or the write pipeline ran, and after edit runs everything but
\* revision_text is as it was before the first of them; the attempt
\* counter, the recorded level and the edit counter are never touched.
C24_AbsorbsOnlyRegenerated ==
    (call.fn = "_update_state_from_result" /\ ret.returned)
        => /\ ret.value.state.scene_list # call.self.scene_list
                => call.tasks = run_full_pipeline
           /\ ret.value.state.draft_text # call.self.draft_text
                => call.tasks \in {run_full_pipeline, run_write_retry}
           /\ call.tasks = run_edit_retry
                => ret.value.state =
                       [call.self EXCEPT !.revision_text = ret.value.state.revision_text]
           /\ ret.value.state.current_attempt = call.self.current_attempt
           /\ ret.value.state.last_retry_level = call.self.last_retry_level
           /\ ret.value.state.edit_retry_count = call.self.edit_retry_count

C24_Witness ==
    /\ call.fn = "_update_state_from_result"
    /\ call.tasks = run_edit_retry
    /\ call.self.scene_list = model_dump_json(<<1500, 500>>)
    /\ call.self.draft_text = "draft_a"
    /\ call.self.revision_text = ""
    /\ ret.returned
    /\ ret.value.absorbed = 2
    /\ ret.value.state.revision_text = "revision_a"
    /\ ret.value.state.draft_text = "draft_a"
    /\ ret.value.state.scene_list = call.self.scene_list

\* ------------------------------------------------------------------------
\* The retry counters in generate_chapter (Spec)
\* ------------------------------------------------------------------------

\* C22 (as claimed): in every reachable state the generation state holds an
\* edit counter and a write counter, both >= 0 and not both nonzero.
C22_StreaksExclusive ==
    /\ HasField(state, "edit_retry_count")
    /\ HasField(state, "write_retry_count")
    /\ state.edit_retry_count >= 0
    /\ state.write_retry_count >= 0
    /\ state.edit_retry_count = 0 \/ state.write_retry_count = 0

\* C23 (as claimed): an attempt whose kickoff returned a failed report ends
\* with the level recorded (last_retry_level is the classified level, no
\* escalation being due) and never with an exception raised by the
\* classification, guard or reset steps.
C23_FailedVerdictRecorded ==
    \A k \in 1..Len(runs) :
        runs[k].classified # NoneVal
            => /\ runs[k].ended = "failed"
               /\ (k = Len(runs) /\ pc = "loop")
                    => state.last_retry_level = runs[k].classified

\* C25 (as claimed): after the guard step of an attempt in which no counter
\* is due to be incremented (attempt 0, a full pipeline run, or a decision
\* different from the level run) the step has completed and both counters
\* are 0.
C25_CountersResetOtherwise ==
    (/\ runs # <<>>
     /\ runs[Len(runs)].classified # NoneVal
     /\ \/ runs[Len(runs)].tasks = run_full_pipeline
        \/ runs[Len(runs)].classified # runs[Len(runs)].due)
    => /\ runs[Len(runs)].ended = "failed"
       /\ state.edit_retry_count = 0
       /\ HasField(state, "write_retry_count")
       /\ state.write_retry_count = 0

\* C26: inside generate_chapter no forced escalation fires: no counter ever
\* exceeds 1 (the write counter, where the state has one), and a level
\* recorded after a failed report is the level determine_retry_level
\* returned for it.
C26_NoEscalationWithinBudget ==
    /\ state.edit_retry_count <= 1
    /\ HasField(state, "write_retry_count") => state.write_retry_count <= 1
    /\ \A k \in 1..Len(runs) :
          (runs[k].ended = "failed" /\ k = Len(runs) /\ pc = "loop")
              => state.last_retry_level = runs[k].classified
    /\ \A k \in 1..Len(runs) :
          runs[k].due \in {NoneVal} \cup {runs[j].classified : j \in 1..(k - 1)}

C26_Witness ==
    /\ Len(runs) = 3
    /\ runs[1].classified = EDIT_ONLY
    /\ runs[2].classified = EDIT_ONLY
    /\ runs[3].classified = FULL_RETRY
    /\ runs[3].ended = "raised_in_guard"
    /\ state.edit_retry_count = 0

\* C27: at the start of every attempt k >= 1 the guidance given to the run is
\* the joined revision instructions of attempt k-1's failed verdict when
\* attempt k-1 ended with a failed verdict, and the empty string when it
\* ended with a caught exception and no verdict.
C27_GuidanceFromLastVerdict ==
    (pc = "running" /\ Len(runs) >= 2 /\ runs[Len(runs)].attempt >= 1)
        => IF runs[Len(runs) - 1].classified # NoneVal
           THEN inputs.revision_instructions = runs[Len(runs) - 1].instructions
           ELSE inputs.revision_instructions = <<>>

\* C28 (as claimed): after an exception caught in attempt 0 or 1 the delay
\* slept is 60 when the exception is of the rate-limit class (its class name
\* contains "RateLimitError" or its message "rate limit") and
\* min(5 * 2^a, 30) otherwise, so it is positive, at most 30 for the other
\* errors and shorter than the rate-limit delay; no delay is slept in
\* attempt 2, and none after a failed verdict.
C28_DelayOnlyAfterException ==
    \A i \in 1..Len(runs) :
        LET r == runs[i] IN
        /\ (r.error # NoError /\ r.attempt < max_retries /\ r.classified = NoneVal)
              => /\ r.delay = IF InString("RateLimitError", r.error.type)
                                  \/ r.error.rate_limit_msg
                               THEN <<60>>
                               ELSE <<Min(5 * Pow2(r.attempt), 30)>>
                 /\ r.delay[1] > 0
                 /\ (r.delay # <<60>>) => (r.delay[1] <= 30 /\ r.delay[1] < 60)
        /\ r.attempt = max_retries => r.delay = <<>>
        /\ r.classified # NoneVal => r.delay = <<>>
        /\ r.error = NoError => r.delay = <<>>

\* C29 (as claimed): the attempt that follows a write_only decision while a
\* scene plan is stored is a write_only run reusing that plan, and the plan
\* its draft stage is handed (scene_list_for_write) is the stored plan
\* corrected: summing to within 100 of 3000 when the stored plan did, to
\* exactly 3000 otherwise, and the same for the same stored plan.
C29_CorrectedPlanHanded ==
    (/\ pc = "running"
     /\ Len(runs) >= 2
     /\ runs[Len(runs) - 1].classified = WRITE_ONLY
     /\ parse_scene_list_safe(state.scene_list).ok)
    => /\ Truthy(inputs.scene_list_for_write)
       /\ IF Abs(SumSeq(state.scene_list.scenes) - target_total) <= tolerance
          THEN Abs(SumSeq(inputs.scene_list_for_write.scenes) - target_total) <= tolerance
          ELSE SumSeq(inputs.scene_list_for_write.scenes) = target_total
       /\ inputs.scene_list_for_write.scenes
             = normalize_scene_list_word_count(state.scene_list.scenes).scenes

\* C30 (as claimed): validating and correcting a stored scene plan never
\* raises, whatever the plan holds: it returns the corrected plan, or None
\* for a string that is not a scene plan.
C30_PlanCheckNeverRaises ==
    (call.fn = "_parse_and_normalize_scene_list" /\ ret.returned)
        => ~ret.value.raised

\* C31 (as claimed): the attempt that follows an edit_only decision while
\* the state holds no draft text (None or "") is run as write_only: Crew is
\* handed write, edit, judge, update_bible.
C31_DegradesWithoutDraft ==
    (/\ pc = "running"
     /\ Len(runs) >= 2
     /\ runs[Len(runs) - 1].classified = EDIT_ONLY
     /\ ~TruthyText(state.draft_text))
    => runs[Len(runs)].tasks = run_write_retry

\* C33: the required stages of edit_only are among those of write_only,
\* which are among those of full_retry, and the task list of every run is
\* the required stages of the level it runs at, in order, followed by
\* update_bible.
C33_StagesOrderedByScope ==
    /\ {required_tasks(EDIT_ONLY)[i] : i \in 1..Len(required_tasks(EDIT_ONLY))}
          \subseteq {required_tasks(WRITE_ONLY)[i] : i \in 1..Len(required_tasks(WRITE_ONLY))}
    /\ {required_tasks(WRITE_ONLY)[i] : i \in 1..Len(required_tasks(WRITE_ONLY))}
          \subseteq {required_tasks(FULL_RETRY)[i] : i \in 1..Len(required_tasks(FULL_RETRY))}
    /\ (call.fn = "generate_chapter.iteration" /\ ret.returned /\ ret.value.tasks # <<>>)
          => ret.value.tasks =
                 required_tasks(IF call.attempt = 0
                                   \/ ret.value.state.last_retry_level = NoneVal
                                THEN FULL_RETRY
                                ELSE ret.value.state.last_retry_level)
                     \o <<"update_bible">>

C33_Witness ==
    /\ call.fn = "generate_chapter.iteration"
    /\ call.attempt = 1
    /\ call.state.last_retry_level = WRITE_ONLY
    /\ ret.returned
    /\ ret.value.tasks = <<"write_chapter", "edit_chapter", "judge_chapter", "update_bible">>

\* C39: in every iteration the outputs are mapped onto the state and the
\* verdict and the updated bible are located by the positions of the
\* pipeline that ran: the verdict read is the judge stage's output, the
\* bible the update_bible stage's, and each state field takes the output of
\* its own stage or keeps its value.
C39_OutputsReadAtOwnPositions ==
    (call.fn = "generate_chapter.iteration" /\ ret.returned /\ ~ret.value.raised)
        => /\ ret.value.read.judge.stage = "judge_chapter"
           /\ ret.value.read.updated_bible.stage = "update_bible"
           /\ ret.value.state.revision_text.stage = "edit_chapter"
           /\ ret.value.read.revision_text = ret.value.state.revision_text
           /\ IF Len(ret.value.tasks) >= 4
              THEN ret.value.state.draft_text.stage = "write_chapter"
              ELSE ret.value.state.draft_text = call.state.draft_text
           /\ IF Len(ret.value.tasks) = 5 /\ ret.value.outputs[1].pydantic = "scene_list"
              THEN ret.value.state.scene_list = model_dump_json(ret.value.outputs[1].scenes)
              ELSE ret.value.state.scene_list = call.state.scene_list

\* a write_only attempt whose stored plan does not parse falls back to the
\* full pipeline and is read at the full pipeline's positions
C39_Witness ==
    /\ call.fn = "generate_chapter.iteration"
    /\ call.attempt = 1
    /\ call.state.last_retry_level = WRITE_ONLY
    /\ call.inputs.scene_list = EmptyStr
    /\ ret.returned
    /\ ~ret.value.raised
    /\ Len(ret.value.outputs) = 5
    /\ ret.value.state.last_retry_level = FULL_RETRY
    /\ ret.value.read.judge.stage = "judge_chapter"

\* C34: chapters are generated one at a time in the order 1..9, one
\* generate_chapter call per chapter, each call starting from a fresh
\* generation state; the next chapter is started whatever way the last
\* call ended.
C34_ChaptersInOrder ==
    /\ [](call.fn = "run" =>
            /\ call.chapter_num \in 1..(NUM_CHAPTERS + 1)
            /\ Len(call.calls) = call.chapter_num - 1
            /\ \A k \in 1..Len(call.calls) :
                  /\ call.calls[k].chapter_number = k
                  /\ call.calls[k].state = ChapterGenerationState
                  /\ call.calls[k].state.current_attempt = 0
                  /\ call.calls[k].state.last_retry_level = NoneVal
                  /\ call.calls[k].state.edit_retry_count = 0
                  /\ ~Truthy(call.calls[k].state.scene_list)
                  /\ call.calls[k].state.draft_text = NoneVal)
    /\ [][(call.fn = "run" /\ call' # call) =>
             /\ call'.chapter_num = call.chapter_num + 1
             /\ call'.calls = Append(call.calls, call'.calls[Len(call'.calls)])]_vars

C34_Witness ==
    /\ call.fn = "run"
    /\ call.chapter_num = NUM_CHAPTERS + 1
    /\ Len(call.calls) = NUM_CHAPTERS
    /\ call.last.kind = "raised"
    /\ call.calls[NUM_CHAPTERS].story_bible = [form |-> "dict", content |-> "bible_b"]

\* C35: the bible handed to the next chapter is the updated bible of the
\* last call when that call returned a passed verdict, and the bible that
\* call was given when it ended without passing (it raised); a bible that
\* has replaced the initial one is the updated bible of a passed chapter.
C35_BibleFromPassedOnly ==
    /\ [](call.fn = "run" /\ call.last.kind # "none"
            => IF call.last.kind = "passed"
               THEN call.current_bible = model_dump(call.last.updated_bible)
               ELSE call.current_bible = call.last.received)
    /\ [][(call.fn = "run" /\ call'.current_bible # call.current_bible)
            => /\ call'.last.kind = "passed"
               /\ call'.current_bible = model_dump(call'.last.updated_bible)]_vars

\* chapter 1 passed, chapter 2 raised and chapter 3 is handed the bible
\* chapter 1 produced
C35_Witness ==
    /\ call.fn = "run"
    /\ Len(call.calls) = 2
    /\ call.last.kind = "raised"
    /\ call.calls[2].story_bible = [form |-> "dict", content |-> "bible_a"]
    /\ call.current_bible = [form |-> "dict", content |-> "bible_a"]
    /\ call.last.received = call.current_bible

\* C36: the correction is idempotent: applied to a plan it has returned,
\* it returns that plan unchanged.
C36_CorrectionIdempotent ==
    (call.fn = "_normalize_scene_list_word_count" /\ ret.returned /\ ~ret.value.raised)
        => normalize_scene_list_word_count(ret.value.scenes)
               = [raised |-> FALSE, scenes |-> ret.value.scenes]

\* a plan that was rescaled, with the residue put on the last scene
C36_Witness ==
    /\ call.fn = "_normalize_scene_list_word_count"
    /\ call.scenes = <<1000, 1000, 1451>>
    /\ ret.returned
    /\ ~ret.value.raised
    /\ ret.value.scenes # call.scenes
    /\ SumSeq(ret.value.scenes) = target_total

\* C40 (as claimed): a plan of non-negative targets with a positive sum
\* outside [2900, 3100] is corrected to a plan of non-negative targets.
C40_CorrectedNonNegative ==
    (call.fn = "_normalize_scene_list_word_count" /\ ret.returned /\ ~ret.value.raised
        /\ (\A i \in 1..Len(call.scenes) : call.scenes[i] >= 0)
        /\ SumSeq(call.scenes) > 0
        /\ Abs(SumSeq(call.scenes) - target_total) > tolerance)
        => \A i \in 1..Len(ret.value.scenes) : ret.value.scenes[i] >= 0

\* C37: when a stage raises during attempt 0 or 1, the generation state
\* (recorded level, scene list, draft, revision, counters) is left as it
\* was when the run started, the guidance is cleared and nothing else of
\* the inputs changes, the attempt number advances by one, and the run
\* that follows has the same task list and the same due level.
C37_StageFailureKeepsState ==
    /\ [](\A k \in 1..(Len(runs) - 1) :
            runs[k].ended = "raised_in_stage"
                => /\ runs[k + 1].tasks = runs[k].tasks
                   /\ runs[k + 1].due = runs[k].due
                   /\ runs[k + 1].attempt = runs[k].attempt + 1)
    /\ [][(/\ pc = "running"
           /\ attempt < 2
           /\ runs'[Len(runs')].ended = "raised_in_stage")
          => /\ state' = state
             /\ inputs' = [inputs EXCEPT !.revision_instructions = <<>>]
             /\ attempt' = attempt + 1
             /\ pc' = "loop"]_vars

\* attempt 0 delivered artifacts and a failed verdict, a stage of attempt 1
\* raised, and attempt 2 has started with the artifacts still stored
C37_Witness ==
    /\ Len(runs) = 3
    /\ runs[1].classified = WRITE_ONLY
    /\ runs[2].ended = "raised_in_stage"
    /\ runs[3].ended = "running"
    /\ runs[3].tasks = runs[2].tasks
    /\ state.draft_text = "draft_a"
    /\ Truthy(state.scene_list)
    /\ inputs.revision_instructions = <<>>
    /\ slept = <<5, RATE_LIMIT_DELAY>>

\* C38: a level classified from the failed verdict of attempt 2 is never
\* run: the call has ended and no run follows that attempt.
C38_LastClassificationNotRun ==
    \A k \in 1..Len(runs) :
        (runs[k].attempt = 2 /\ runs[k].classified # NoneVal)
            => /\ k = Len(runs)
               /\ pc = "done"
               /\ result.kind \in {"raised", "returned"}

C38_Witness ==
    /\ Len(runs) = 3
    /\ runs[3].attempt = 2
    /\ runs[3].classified = FULL_RETRY
    /\ runs[3].tasks = run_full_pipeline
    /\ runs[1].classified = EDIT_ONLY
    /\ pc = "done"

====
